---- MODULE Spec2Model ----
\* A model of visca2uvc (src/main.cc): the command-line dispatcher Visca2Uvc,
\* the move-only owning wrappers of the three native libuvc resources
\* (context, device reference, device handle) and the numeric argument
\* parser SimpleAtoi<T>.
\*
\* The specifications share the variables:
\*   Spec         one command-line invocation, from main() to process exit;
\*   SpecWrapper  arbitrary sequences of wrapper operations on a pool of
\*                wrapper objects (UvcWrapper<T, deleter>);
\*   SpecAll      the behaviours of Spec and those of SpecWrapper;
\*   SpecParse    SimpleAtoi<T> applied to a text token.
EXTENDS Integers, Sequences, FiniteSets, TLC

VARIABLES
    args,       \* argv after flag parsing: args[1] is the program name
    pc,         \* position of the process in main()/Visca2Uvc()
    value_,     \* UvcWrapper::value_ of every wrapper object
    alive,      \* wrapper objects constructed and not yet destroyed
    calls,      \* the native libuvc calls made so far, in order
    parsed,     \* the SimpleAtoi<T> calls made so far, in order
    out,        \* fragments written to std::cout, in order
    errs,       \* lines written to std::cerr, in order
    status,     \* the absl::Status Visca2Uvc() returned ("unset" before)
    exc,        \* what() of the exception in flight or caught: the text
                \* of the status .value() threw on ("none" if none)
    exitcode,   \* the value main() returned (-1 while running)
    camera,     \* the camera's zoom controls, behind the native calls
    arg,        \* the ZoomRel local `arg` of the set_zoom_rel branch
    moved       \* the move made last between two wrapper objects: which
                \* operation, its source `other`, its target, and the
                \* pointer the target held before (op "none" if the
                \* last wrapper operation was not a move)

vars == <<args, pc, value_, alive, calls, parsed, out, errs, status, exc,
          exitcode, camera, arg, moved>>

\* ---------------------------------------------------------------- bounds

\* Longest argv modelled: program name, command and three argument tokens.
MaxArgs == 5
\* Longest generated text token handed to SimpleAtoi in SpecParse.
MaxTokLen == 3
\* Wrapper objects and native pointers of the wrapper pool (SpecWrapper).
MaxObj == 3
MaxPtr == 2

\* ------------------------------------------------- text tokens (char* args)

\* A text token is the sequence of its characters.
Alphabet == {"0", "1", "7", "9", "-", "+", " ", "x"}

Digits == {"0", "1", "2", "3", "4", "5", "6", "7", "8", "9"}

\* absl::ascii_isspace
IsSpace(c) == c \in {" ", "\t", "\n", "\r"}

DigitVal(c) ==
    CASE c = "0" -> 0 [] c = "1" -> 1 [] c = "2" -> 2 [] c = "3" -> 3
      [] c = "4" -> 4 [] c = "5" -> 5 [] c = "6" -> 6 [] c = "7" -> 7
      [] c = "8" -> 8 [] c = "9" -> 9 [] OTHER -> 36

SeqsUpTo(S, n) == UNION {[1..k -> S] : k \in 0..n}

ExtraTokens ==
    { <<"5">>, <<"1", "0">>, <<"-", "5">>, <<"2", "0", "0">>,
      <<"2", "5", "5">>, <<"2", "5", "6">>, <<"5", "0", "0">>,
      <<"6", "5", "5", "3", "5">>, <<"6", "5", "5", "3", "6">>,
      <<"7", "0", "0", "0", "0">>, <<"-", "1", "2", "8">>,
      <<"4", "2", "9", "4", "9", "6", "7", "2", "9", "5">>,
      <<"4", "2", "9", "4", "9", "6", "7", "2", "9", "6">>,
      <<"4", "2", "9", "4", "9", "6", "7", "3", "0", "0">>,
      <<"9", "9", "9", "9", "9", "9", "9", "9", "9", "9", "9">> }

Tokens == SeqsUpTo(Alphabet, MaxTokLen) \cup ExtraTokens

\* The tokens a command line of Spec draws its arguments from.
CliTokens ==
    { <<"5">>, <<"1">>, <<"1", "0">>, <<"-", "5">>,
      <<"7", "0", "0", "0", "0">> }

\* ------------------------------------------------------- SimpleAtoi<T>

Types == {"uint16_t", "uint8_t", "int8_t"}

\* A uint32_t is kept as two 16-bit limbs, value = hi * 2^16 + lo, so that
\* its arithmetic is exact at every value up to 2^32 - 1.
Limb == 2^16

RECURSIVE StripLeading(_)
StripLeading(s) ==
    IF s # <<>> /\ IsSpace(Head(s)) THEN StripLeading(Tail(s)) ELSE s

RECURSIVE StripTrailing(_)
StripTrailing(s) ==
    IF s # <<>> /\ IsSpace(s[Len(s)])
    THEN StripTrailing(SubSeq(s, 1, Len(s) - 1))
    ELSE s

\* absl's safe_parse_positive_int<uint32_t>, base 10: digit by digit, failing
\* on a non-digit or when result * 10 + digit would pass the uint32_t maximum.
RECURSIVE SafeParsePositiveInt(_, _)
SafeParsePositiveInt(s, result) ==
    IF s = <<>> THEN [ok |-> TRUE, val |-> result]
    ELSE LET digit == DigitVal(Head(s))
             lo    == result.lo * 10 + digit
             hi    == result.hi * 10 + (lo \div Limb)
         IN  IF digit >= 10 THEN [ok |-> FALSE, val |-> result]
             ELSE IF hi >= Limb THEN [ok |-> FALSE, val |-> result]
             ELSE SafeParsePositiveInt(Tail(s), [hi |-> hi, lo |-> lo % Limb])

\* absl::SimpleAtoi(str, &result) with uint32_t result: surrounding white
\* space is dropped, one sign is consumed, a '-' makes an unsigned parse fail.
AbslSimpleAtoi(str) ==
    LET text == StripTrailing(StripLeading(str))
        zero == [hi |-> 0, lo |-> 0]
        fail == [ok |-> FALSE, val |-> zero]
    IN  IF text = <<>> THEN fail
        ELSE LET negative == Head(text) = "-"
                 signed   == Head(text) \in {"-", "+"}
                 rest     == IF signed THEN Tail(text) ELSE text
             IN  IF rest = <<>> \/ negative THEN fail
                 ELSE SafeParsePositiveInt(rest, zero)

\* T(result): the conversion of a uint32_t to the target type, modulo 2^width
\* (two's complement for the signed type).
Cast(T, v) ==
    CASE T = "uint16_t" -> v.lo
      [] T = "uint8_t"  -> v.lo % 2^8
      [] T = "int8_t"   -> IF v.lo % 2^8 >= 2^7 THEN (v.lo % 2^8) - 2^8
                           ELSE v.lo % 2^8

\* template <typename T> absl::StatusOr<T> SimpleAtoi(absl::string_view str)
SimpleAtoi(T, str) ==
    LET r == AbslSimpleAtoi(str) IN
    IF ~r.ok THEN [T |-> T, tok |-> str, ok |-> FALSE, val |-> 0]
    ELSE [T |-> T, tok |-> str, ok |-> TRUE, val |-> Cast(T, r.val)]

\* ------------------------------------------- native resources and wrappers

Kinds == {"ctx", "dev", "devh"}

\* A native pointer: uvc_context_t*, uvc_device_t* or uvc_device_handle_t*.
Ptr(kind, id) == [kind |-> kind, id |-> id]

Null == [kind |-> "null", id |-> 0]

\* The libuvc call that hands out a pointer of each kind.
Acquirer(kind) ==
    CASE kind = "ctx" -> "uvc_init"
      [] kind = "dev" -> "uvc_find_device"
      [] kind = "devh" -> "uvc_open"

\* The deleter template argument of each wrapper class.
Deleter(kind) ==
    CASE kind = "ctx" -> "uvc_exit"
      [] kind = "dev" -> "uvc_unref_device"
      [] kind = "devh" -> "uvc_close"

AcquireFns == {Acquirer(k) : k \in Kinds}
ReleaseFns == {Deleter(k) : k \in Kinds}
ZoomFns == {"uvc_get_zoom_abs", "uvc_set_zoom_abs",
            "uvc_get_zoom_rel", "uvc_set_zoom_rel"}
HandleFns == ZoomFns \cup {"uvc_print_diag"}

\* uvc_error_t: UVC_SUCCESS and one negative code (UVC_ERROR_IO).
UvcStatuses == {0, -1}

\* One native call as recorded in `calls`: the function, the pointer it was
\* given (or, for an acquirer, handed out), the request code of a getter, the
\* payload of a zoom transfer and the uvc_error_t it returned.
Call(fn, ptr, req, val, err) ==
    [fn |-> fn, ptr |-> ptr, req |-> req, val |-> val, err |-> err]

\* A handle operation that makes its transfer a second time after a failure.
UvcCallRetried(fn, ptr, req, val, err) ==
    IF err < 0
    THEN <<Call(fn, ptr, req, val, err), Call(fn, ptr, req, val, err)>>
    ELSE <<Call(fn, ptr, req, val, err)>>

\* The native calls one handle operation makes: the one transfer.
UvcCall(fn, ptr, req, val, err) == <<Call(fn, ptr, req, val, err)>>

\* The absl::Status a wrapper method makes of the uvc_error_t of its call:
\*   if (err < 0) return absl::InternalError(StrCat("<call>: ", ...));
\* msg is the text that identifies the status: the call's name, or "OK".
UvcResult(call, err) ==
    [ok |-> err >= 0, msg |-> IF err < 0 THEN call ELSE "OK"]

\* The wrapper operations act on h = [value_, alive, calls].

\* explicit UvcWrapper(T* value) : value_(value) {}
WrapperCtor(h, o, p) ==
    [h EXCEPT !.value_ = [@ EXCEPT ![o] = p], !.alive = @ \cup {o}]

\* A move constructor that copies the pointer and leaves `other` owning it.
WrapperMoveCtorShared(h, o, other) ==
    [h EXCEPT !.value_ = [@ EXCEPT ![o] = h.value_[other]],
              !.alive = @ \cup {o}]

\* UvcWrapper(UvcWrapper&& other) : value_(other.value_)
\*   { other.value_ = nullptr; }
WrapperMoveCtor(h, o, other) ==
    [h EXCEPT !.value_ = [@ EXCEPT ![o] = h.value_[other], ![other] = Null],
              !.alive = @ \cup {o}]

\* A move assignment that releases what the target held, takes the pointer
\* of `other` and leaves `other` null.
WrapperMoveAssignReset(h, o, other) ==
    IF o = other THEN h
    ELSE [h EXCEPT !.calls = IF h.value_[o] # Null
                             THEN Append(@, Call(Deleter(h.value_[o].kind),
                                                 h.value_[o], "", <<>>, 0))
                             ELSE @,
                   !.value_ = [@ EXCEPT ![o] = h.value_[other],
                                        ![other] = Null]]

\* UvcWrapper& operator=(UvcWrapper&& other)
\*   { std::swap(other.value_, value_); return *this; }
WrapperMoveAssign(h, o, other) ==
    [h EXCEPT !.value_ = [@ EXCEPT ![o] = h.value_[other],
                                   ![other] = h.value_[o]]]

\* ~UvcWrapper() { if (value_ != nullptr) deleter(value_); }
WrapperDtor(h, o) ==
    [h EXCEPT !.calls = IF h.value_[o] # Null
                        THEN Append(@, Call(Deleter(h.value_[o].kind),
                                            h.value_[o], "", <<>>, 0))
                        ELSE @,
              !.value_ = [@ EXCEPT ![o] = Null],
              !.alive = @ \ {o}]

Heap == [value_ |-> value_, alive |-> alive, calls |-> calls]

SetHeap(h) ==
    /\ value_' = h.value_
    /\ alive' = h.alive
    /\ calls' = h.calls

\* The pointers handed out so far, and how often each was released.
Acquired ==
    {calls[i].ptr : i \in {j \in DOMAIN calls :
                             calls[j].fn \in AcquireFns /\ calls[j].err >= 0}}

ReleaseCount(p) ==
    Cardinality({i \in DOMAIN calls :
                   calls[i].fn \in ReleaseFns /\ calls[i].ptr = p})

\* -------------------------------------------------------------- SpecWrapper
\* A pool of wrapper objects of one wrapper class, under every sequence of
\* construction from a fresh native pointer, move construction, move
\* assignment and destruction; at the end of the process every object still
\* alive is destroyed.

PoolObjs(kind) == {<<kind, n>> : n \in 1..MaxObj}

NoCamera == [abs |-> 0, rel |-> <<0, 0, 0>>]
NoArg == [zoom_rel |-> 0, digital_zoom |-> 0, speed |-> 0]
NoMove == [op |-> "none", other |-> <<>>, this |-> <<>>, was |-> Null]

InitWrapper ==
    /\ \E kind \in Kinds : value_ = [o \in PoolObjs(kind) |-> Null]
    /\ pc = "pool"
    /\ alive = {}
    /\ calls = <<>>
    /\ args = <<>>
    /\ parsed = <<>>
    /\ out = <<>>
    /\ errs = <<>>
    /\ status = "unset"
    /\ exc = "none"
    /\ exitcode = -1
    /\ camera = NoCamera
    /\ arg = NoArg
    /\ moved = NoMove

PoolFrame == UNCHANGED <<args, parsed, out, errs, status, exc, exitcode,
                         camera, arg>>

\* A wrapper is constructed from the pointer a native acquirer just returned.
PoolConstruct ==
    /\ pc = "pool"
    /\ \E o \in DOMAIN value_ \ alive :
       \E id \in 1..MaxPtr :
          LET p == Ptr(o[1], id) IN
          /\ p \notin Acquired
          /\ \A j \in 1..(id - 1) : Ptr(o[1], j) \in Acquired
          /\ SetHeap(WrapperCtor(
                 [Heap EXCEPT !.calls =
                      Append(@, Call(Acquirer(o[1]), p, "", <<>>, 0))],
                 o, p))
    /\ moved' = NoMove
    /\ UNCHANGED pc
    /\ PoolFrame

PoolMoveConstruct ==
    /\ pc = "pool"
    /\ \E o \in DOMAIN value_ \ alive : \E other \in alive :
          /\ SetHeap(WrapperMoveCtor(Heap, o, other))
          /\ moved' = [op |-> "construct", other |-> other, this |-> o,
                        was |-> Null]
    /\ UNCHANGED pc
    /\ PoolFrame

PoolMoveAssign ==
    /\ pc = "pool"
    /\ \E o \in alive : \E other \in alive :
          /\ SetHeap(WrapperMoveAssign(Heap, o, other))
          /\ moved' = [op |-> "assign", other |-> other, this |-> o,
                        was |-> value_[o]]
    /\ UNCHANGED pc
    /\ PoolFrame

PoolDestroy ==
    /\ pc = "pool"
    /\ \E o \in alive : SetHeap(WrapperDtor(Heap, o))
    /\ moved' = NoMove
    /\ UNCHANGED pc
    /\ PoolFrame

RECURSIVE DestroyAll(_, _)
DestroyAll(h, objs) ==
    IF objs = {} THEN h
    ELSE LET o == CHOOSE x \in objs : TRUE
         IN  DestroyAll(WrapperDtor(h, o), objs \ {o})

\* The process ends: every wrapper object still alive goes out of scope.
PoolEnd ==
    /\ pc = "pool"
    /\ SetHeap(DestroyAll(Heap, alive))
    /\ moved' = NoMove
    /\ pc' = "done"
    /\ PoolFrame

NextWrapper ==
    \/ PoolConstruct
    \/ PoolMoveConstruct
    \/ PoolMoveAssign
    \/ PoolDestroy
    \/ PoolEnd

SpecWrapper == InitWrapper /\ [][NextWrapper]_vars

\* ---------------------------------------------------------------- SpecParse
\* SimpleAtoi<T> applied once to a token, for every target type T.

InitParse ==
    /\ \E t \in Tokens : args = <<t>>
    /\ pc = "parse"
    /\ value_ = <<>>
    /\ alive = {}
    /\ calls = <<>>
    /\ parsed = <<>>
    /\ out = <<>>
    /\ errs = <<>>
    /\ status = "unset"
    /\ exc = "none"
    /\ exitcode = -1
    /\ camera = NoCamera
    /\ arg = NoArg
    /\ moved = NoMove

ParseToken ==
    /\ pc = "parse"
    /\ \E T \in Types : parsed' = Append(parsed, SimpleAtoi(T, args[1]))
    /\ pc' = "done"
    /\ UNCHANGED <<args, moved, value_, alive, calls, out, errs, status, exc,
                   exitcode, camera, arg>>

NextParse == ParseToken

SpecParse == InitParse /\ [][NextParse]_vars

\* --------------------------------------------------------------------- Spec
\* One invocation of the program: main() calls Visca2Uvc(args), whose locals
\* uvc, dev and handle own the three native resources.

Word(w) == <<w>>

ProgramName == Word("visca2uvc")

KnownCommands == {Word("get_zoom_abs"), Word("set_zoom_abs"),
                  Word("get_zoom_rel"), Word("set_zoom_rel")}

Commands == KnownCommands \cup {Word("foo")}

ArgVectors ==
    {<<ProgramName>>} \cup
    {<<ProgramName, c>> \o t :
        c \in Commands, t \in SeqsUpTo(CliTokens, MaxArgs - 2)}

\* args[i] of the C++ span (0-based).
Arg(i) == args[i + 1]

\* const absl::string_view cmd = args[1];
Cmd == IF Len(args) >= 2 THEN Arg(1) ELSE <<>>

\* The locals of Visca2Uvc that own a resource, and the temporaries of the
\* factory functions: `tmp` is the wrapper a factory constructs in its return
\* statement, `ret` the one inside the absl::StatusOr it returns.
CliObjs == {"uvc", "dev", "handle", "tmp", "ret"}

\* The camera answers a getter from its control's record and keeps the last
\* value a successful setter gave it.
Cameras ==
    [abs : [min : {0}, max : {1000}, cur : {0, 500}],
     rel : [min : {<<-1, 0, 0>>}, max : {<<1, 1, 7>>}, cur : {<<0, 0, 0>>}]]

Init ==
    /\ args \in ArgVectors
    /\ pc = "main"
    /\ value_ = [o \in CliObjs |-> Null]
    /\ alive = {}
    /\ calls = <<>>
    /\ parsed = <<>>
    /\ out = <<>>
    /\ errs = <<>>
    /\ status = "unset"
    /\ exc = "none"
    /\ exitcode = -1
    /\ camera \in Cameras
    /\ arg = NoArg
    /\ moved = NoMove

Text(t) == [text |-> t, val |-> <<>>]
Value(v) == [text |-> "value", val |-> v]

\* if (args.size() <= 1)
UsageGuardStrict == Len(args) < 1
UsageGuard == Len(args) <= 1

\* StatusOr<T>::value() throws absl::BadStatusOrAccess when the status is not
\* OK; the unchecked access never throws.
ThrowsUnchecked(ok) == FALSE
Throws(ok) == ~ok

\* Lines 152-160: the usage banner, and return absl::OkStatus().
Usage ==
    /\ pc = "main"
    /\ UsageGuard
    /\ out' = Append(out, Text("Usage: visca2uvc [cmd] ..."))
    /\ status' = "OK"
    /\ pc' = "exit"
    /\ UNCHANGED <<args, moved, value_, alive, calls, parsed, errs, exc, exitcode,
                   camera, arg>>

\* A factory (UvcContext::Create, UvcContext::FindDevice, UvcDevice::Open)
\* that succeeded, and the declaration it initialises: the wrapper built from
\* the native pointer is moved into the StatusOr, and from there into the
\* local; both temporaries are destroyed.
ReturnWrapper(h, p) ==
    WrapperDtor(WrapperMoveCtor(WrapperCtor(h, "tmp", p), "ret", "tmp"), "tmp")

InitLocal(h, local) ==
    WrapperDtor(WrapperMoveCtor(h, local, "ret"), "ret")

\* A factory whose handle wrapper takes the device reference over: the Device
\* is consumed by Open and released at once.
UvcDeviceOpenConsuming(h, p) ==
    WrapperDtor(ReturnWrapper(h, p), "dev")

UvcContextCreate(h, p) == ReturnWrapper(h, p)
UvcContextFindDevice(h, p) == ReturnWrapper(h, p)
UvcDeviceOpen(h, p) == ReturnWrapper(h, p)

CliFrame == UNCHANGED <<args, moved, parsed, out, errs, status, camera, arg>>

\* auto uvc = UvcContext::Create().value();
Create ==
    /\ pc = "main"
    /\ ~UsageGuard
    /\ \E err \in UvcStatuses :
          IF Throws(UvcResult("uvc_init", err).ok)
          THEN /\ calls' = Append(calls, Call("uvc_init", Null, "", <<>>, err))
               /\ exc' = UvcResult("uvc_init", err).msg
               /\ pc' = "exit"
               /\ UNCHANGED <<value_, alive>>
          ELSE /\ SetHeap(InitLocal(UvcContextCreate(
                     [Heap EXCEPT !.calls = Append(@,
                          Call("uvc_init", Ptr("ctx", 1), "", <<>>, err))],
                     Ptr("ctx", 1)), "uvc"))
               /\ pc' = "find"
               /\ UNCHANGED exc
    /\ UNCHANGED exitcode
    /\ CliFrame

\* UvcDevice dev = uvc.FindDevice(0, 0, nullptr).value();
FindDevice ==
    /\ pc = "find"
    /\ \E err \in UvcStatuses :
          IF Throws(UvcResult("uvc_find_device", err).ok)
          THEN /\ calls' = Append(calls,
                     Call("uvc_find_device", Null, "", <<>>, err))
               /\ exc' = UvcResult("uvc_find_device", err).msg
               /\ pc' = "exit"
               /\ UNCHANGED <<value_, alive>>
          ELSE /\ SetHeap(InitLocal(UvcContextFindDevice(
                     [Heap EXCEPT !.calls = Append(@,
                          Call("uvc_find_device", Ptr("dev", 1), "", <<>>, err))],
                     Ptr("dev", 1)), "dev"))
               /\ pc' = "open"
               /\ UNCHANGED exc
    /\ UNCHANGED exitcode
    /\ CliFrame

\* UvcDeviceHandle handle = dev.Open().value();
Open ==
    /\ pc = "open"
    /\ \E err \in UvcStatuses :
          IF Throws(UvcResult("uvc_open", err).ok)
          THEN /\ calls' = Append(calls,
                     Call("uvc_open", Null, "", <<>>, err))
               /\ exc' = UvcResult("uvc_open", err).msg
               /\ pc' = "exit"
               /\ UNCHANGED <<value_, alive>>
          ELSE /\ SetHeap(InitLocal(UvcDeviceOpen(
                     [Heap EXCEPT !.calls = Append(@,
                          Call("uvc_open", Ptr("devh", 1), "", <<>>, err))],
                     Ptr("devh", 1)), "handle"))
               /\ pc' = "diag"
               /\ UNCHANGED exc
    /\ UNCHANGED exitcode
    /\ CliFrame

\* A dispatcher that goes on to the command without the diagnostics dump.
PrintDiagOmitted ==
    /\ pc = "diag"
    /\ pc' = "cmd"
    /\ UNCHANGED <<args, moved, value_, alive, calls, parsed, out, errs,
                   status, exc, exitcode, camera, arg>>

\* handle.PrintDiag(stdout);
PrintDiag ==
    /\ pc = "diag"
    /\ calls' = Append(calls,
           Call("uvc_print_diag", value_["handle"], "", <<>>, 0))
    /\ out' = Append(out, Text("diag"))
    /\ pc' = "cmd"
    /\ UNCHANGED <<args, moved, value_, alive, parsed, errs, status, exc, exitcode,
                   camera, arg>>

\* std::cout << "<label>" << handle.GetZoomAbs(req).value() << "\n";
\* the label is written before the transfer is made.
GetZoomAbsLine(from, label, req, to) ==
    /\ pc = from
    /\ \E err \in UvcStatuses :
          IF Throws(UvcResult("uvc_get_zoom_abs", err).ok)
          THEN /\ calls' = calls \o UvcCall("uvc_get_zoom_abs",
                                value_["handle"], req, <<>>, err)
               /\ out' = Append(out, Text(label))
               /\ exc' = UvcResult("uvc_get_zoom_abs", err).msg
               /\ pc' = "exit"
          ELSE /\ calls' = calls \o UvcCall("uvc_get_zoom_abs",
                                value_["handle"], req, <<camera.abs[req]>>, err)
               /\ out' = out \o <<Text(label), Value(<<camera.abs[req]>>)>>
               /\ pc' = to
               /\ UNCHANGED exc
    /\ UNCHANGED <<args, moved, value_, alive, parsed, errs, status, exitcode,
                   camera, arg>>

\* std::cout << "<label>" << handle.GetZoomRel(req).value() << "\n";
GetZoomRelLine(from, label, req, to) ==
    /\ pc = from
    /\ \E err \in UvcStatuses :
          IF Throws(UvcResult("uvc_get_zoom_rel", err).ok)
          THEN /\ calls' = calls \o UvcCall("uvc_get_zoom_rel",
                                value_["handle"], req, <<>>, err)
               /\ out' = Append(out, Text(label))
               /\ exc' = UvcResult("uvc_get_zoom_rel", err).msg
               /\ pc' = "exit"
          ELSE /\ calls' = calls \o UvcCall("uvc_get_zoom_rel",
                                value_["handle"], req, camera.rel[req], err)
               /\ out' = out \o <<Text(label), Value(camera.rel[req])>>
               /\ pc' = to
               /\ UNCHANGED exc
    /\ UNCHANGED <<args, moved, value_, alive, parsed, errs, status, exitcode,
                   camera, arg>>

\* Lines 170-173: the get_zoom_abs branch.
GetZoomAbsMin ==
    /\ Cmd = Word("get_zoom_abs")
    /\ GetZoomAbsLine("cmd", "min: ", "min", "get_abs_max")

\* The second line of the branch asking for the current value again.
GetZoomAbsMaxAsCur ==
    GetZoomAbsLine("get_abs_max", "max: ", "cur", "get_abs_cur")

GetZoomAbsMax == GetZoomAbsLine("get_abs_max", "max: ", "max", "get_abs_cur")

GetZoomAbsCur == GetZoomAbsLine("get_abs_cur", "cur: ", "cur", "return")

\* Lines 182-185: the get_zoom_rel branch.
GetZoomRelMin ==
    /\ Cmd = Word("get_zoom_rel")
    /\ GetZoomRelLine("cmd", "min: ", "min", "get_rel_max")

GetZoomRelMax == GetZoomRelLine("get_rel_max", "max: ", "max", "get_rel_cur")

GetZoomRelCur == GetZoomRelLine("get_rel_cur", "cur: ", "cur", "return")

\* The args.size() each set command is compared with; the second operator
\* counts the three arguments of set_zoom_rel and the program name only.
RequiredSizeNoCommand(cmd) == IF cmd = Word("set_zoom_abs") THEN 3 ELSE 4
RequiredSize(cmd) == IF cmd = Word("set_zoom_abs") THEN 3 ELSE 5

\* Lines 174-180: the arity check of set_zoom_abs, the parse of its argument
\* and the setter transfer, whose status is printed and not examined.
SetZoomAbs ==
    /\ pc = "cmd"
    /\ Cmd = Word("set_zoom_abs")
    /\ IF Len(args) # RequiredSize(Cmd)
       THEN /\ status' = "InvalidArgument"
            /\ pc' = "exit"
            /\ UNCHANGED <<parsed, out, exc, calls, camera>>
       ELSE LET focal_length == SimpleAtoi("uint16_t", Arg(2)) IN
            /\ parsed' = Append(parsed, focal_length)
            /\ IF Throws(focal_length.ok)
               THEN /\ out' = Append(out, Text("set: "))
                    /\ exc' = "Cannot parse"
                    /\ pc' = "exit"
                    /\ UNCHANGED <<calls, camera>>
               ELSE \E err \in UvcStatuses :
                    /\ calls' = calls \o UvcCall("uvc_set_zoom_abs",
                           value_["handle"], "", <<focal_length.val>>, err)
                    /\ camera' = IF err >= 0
                                 THEN [camera EXCEPT !.abs.cur = focal_length.val]
                                 ELSE camera
                    /\ out' = out \o <<Text("set: "),
                                       Text(UvcResult("uvc_set_zoom_abs", err).msg)>>
                    /\ pc' = "set_abs_cur"
                    /\ UNCHANGED exc
            /\ UNCHANGED status
    /\ UNCHANGED <<args, moved, value_, alive, errs, exitcode, arg>>

\* A re-query that asks for the maximum instead of the current value.
SetZoomAbsCurAsMax == GetZoomAbsLine("set_abs_cur", "cur: ", "max", "return")

\* Line 181.
SetZoomAbsCur == GetZoomAbsLine("set_abs_cur", "cur: ", "cur", "return")

\* Lines 186-194: the arity check of set_zoom_rel, the three parses in
\* order (speed is parsed from args[3], as digital_zoom is) and the setter
\* transfer, whose status is printed and not examined.
SetZoomRel ==
    /\ pc = "cmd"
    /\ Cmd = Word("set_zoom_rel")
    /\ IF Len(args) # RequiredSize(Cmd)
       THEN /\ status' = "InvalidArgument"
            /\ pc' = "exit"
            /\ UNCHANGED <<parsed, out, exc, calls, camera, arg>>
       ELSE LET zoom_rel     == SimpleAtoi("int8_t", Arg(2))
                digital_zoom == SimpleAtoi("uint8_t", Arg(3))
                speed        == SimpleAtoi("uint8_t", Arg(3))
                zoom == [zoom_rel |-> zoom_rel.val,
                         digital_zoom |-> digital_zoom.val,
                         speed |-> speed.val]
                payload == <<zoom.zoom_rel, zoom.digital_zoom, zoom.speed>>
            IN
            /\ UNCHANGED status
            /\ IF Throws(zoom_rel.ok)
               THEN /\ parsed' = parsed \o <<zoom_rel>>
                    /\ exc' = "Cannot parse"
                    /\ pc' = "exit"
                    /\ UNCHANGED <<out, calls, camera, arg>>
               ELSE IF Throws(digital_zoom.ok)
               THEN /\ parsed' = parsed \o <<zoom_rel, digital_zoom>>
                    /\ exc' = "Cannot parse"
                    /\ pc' = "exit"
                    /\ UNCHANGED <<out, calls, camera, arg>>
               ELSE IF Throws(speed.ok)
               THEN /\ parsed' = parsed \o <<zoom_rel, digital_zoom, speed>>
                    /\ exc' = "Cannot parse"
                    /\ pc' = "exit"
                    /\ UNCHANGED <<out, calls, camera, arg>>
               ELSE \E err \in UvcStatuses :
                    /\ parsed' = parsed \o <<zoom_rel, digital_zoom, speed>>
                    /\ arg' = zoom
                    /\ calls' = calls \o UvcCall("uvc_set_zoom_rel",
                           value_["handle"], "", payload, err)
                    /\ camera' = IF err >= 0
                                 THEN [camera EXCEPT !.rel.cur = payload]
                                 ELSE camera
                    /\ out' = out \o <<Text("set: "),
                                       Text(UvcResult("uvc_set_zoom_rel", err).msg)>>
                    /\ pc' = "set_rel_cur"
                    /\ UNCHANGED exc
    /\ UNCHANGED <<args, moved, value_, alive, errs, exitcode>>

\* Line 195.
SetZoomRelCur == GetZoomRelLine("set_rel_cur", "cur: ", "cur", "return")

\* An unknown command treated as an error of the invocation.
UnknownCommandRejected ==
    /\ pc = "cmd"
    /\ Cmd \notin KnownCommands
    /\ status' = "InvalidArgument"
    /\ pc' = "exit"
    /\ UNCHANGED <<args, moved, value_, alive, calls, parsed, out, errs, exc,
                   exitcode, camera, arg>>

\* Lines 196-198: std::cerr << "Unknown command: " << cmd << "\n";
UnknownCommand ==
    /\ pc = "cmd"
    /\ Cmd \notin KnownCommands
    /\ errs' = Append(errs, "Unknown command")
    /\ pc' = "return"
    /\ UNCHANGED <<args, moved, value_, alive, calls, parsed, out, status, exc,
                   exitcode, camera, arg>>

\* Line 200: return absl::OkStatus();
Return ==
    /\ pc = "return"
    /\ status' = "OK"
    /\ pc' = "exit"
    /\ UNCHANGED <<args, moved, value_, alive, calls, parsed, out, errs, exc,
                   exitcode, camera, arg>>

\* The order in which the locals of Visca2Uvc are destroyed when the
\* function is left: the reverse of their declarations (uvc, dev, handle).
DeclarationOrder == <<"uvc", "dev", "handle">>
DestructionOrder == <<"handle", "dev", "uvc">>

RECURSIVE DestroyInOrder(_, _)
DestroyInOrder(h, order) ==
    IF order = <<>> THEN h
    ELSE DestroyInOrder(
             IF Head(order) \in h.alive THEN WrapperDtor(h, Head(order)) ELSE h,
             Tail(order))

\* Visca2Uvc is left, by a return or by an exception on its way to main's
\* handler: the locals constructed so far are destroyed.
ScopeExit ==
    /\ pc = "exit"
    /\ SetHeap(DestroyInOrder(Heap, DestructionOrder))
    /\ pc' = "caller"
    /\ UNCHANGED <<args, moved, parsed, out, errs, status, exc, exitcode, camera, arg>>

\* A main that also returns 1 when Visca2Uvc returned a status that is not
\* OK.
MainExitStatusCode ==
    /\ pc = "caller"
    /\ IF exc # "none"
       THEN /\ errs' = Append(errs, "Exception")
            /\ exitcode' = 1
       ELSE /\ errs' = IF status # "OK" THEN Append(errs, status) ELSE errs
            /\ exitcode' = IF status # "OK" THEN 1 ELSE 0
    /\ pc' = "done"
    /\ UNCHANGED <<args, moved, value_, alive, calls, parsed, out, status, exc,
                   camera, arg>>

\* Lines 205-216: main prints a status that is not OK and falls off its end
\* (exit code 0); an exception is printed by the handler, which returns 1.
MainExit ==
    /\ pc = "caller"
    /\ IF exc # "none"
       THEN /\ errs' = Append(errs, "Exception")
            /\ exitcode' = 1
       ELSE /\ errs' = IF status # "OK" THEN Append(errs, status) ELSE errs
            /\ exitcode' = 0
    /\ pc' = "done"
    /\ UNCHANGED <<args, moved, value_, alive, calls, parsed, out, status, exc,
                   camera, arg>>

Next ==
    \/ Usage
    \/ Create
    \/ FindDevice
    \/ Open
    \/ PrintDiag
    \/ GetZoomAbsMin
    \/ GetZoomAbsMax
    \/ GetZoomAbsCur
    \/ SetZoomAbs
    \/ SetZoomAbsCur
    \/ GetZoomRelMin
    \/ GetZoomRelMax
    \/ GetZoomRelCur
    \/ SetZoomRel
    \/ SetZoomRelCur
    \/ UnknownCommand
    \/ Return
    \/ ScopeExit
    \/ MainExit

Spec == Init /\ [][Next]_vars

\* Both the invocation and the wrapper pool.
InitAll == Init \/ InitWrapper
NextAll == Next \/ NextWrapper
SpecAll == InitAll /\ [][NextAll]_vars

\* ------------------------------------------------------ reading the logs

Reverse(s) == [i \in 1..Len(s) |-> s[Len(s) + 1 - i]]

IsRelease(c) == c.fn \in ReleaseFns
IsAcquisition(c) == c.fn \in AcquireFns /\ c.err >= 0

PtrsOf(s) == [i \in 1..Len(s) |-> s[i].ptr]
FnsOf(s) == [i \in 1..Len(s) |-> s[i].fn]

\* The pointers released, and the pointers acquired, each in call order.
Released == PtrsOf(SelectSeq(calls, IsRelease))
AcquiredInOrder == PtrsOf(SelectSeq(calls, IsAcquisition))

IsPrefix(s, t) == Len(s) <= Len(t) /\ s = SubSeq(t, 1, Len(s))

ZoomCalls == {i \in DOMAIN calls : calls[i].fn \in ZoomFns}

HandleOpened == Ptr("devh", 1) \in Acquired

\* The number of argument tokens after the command name.
ArgCount == Len(args) - 2

\* ------------------------------------------------------------------ claims

\* C1: on every exit path of an invocation that acquired resources (normal
\* return, early InvalidArgument return, an exception from a later step) the
\* resources acquired are released in strict reverse order of acquisition:
\* uvc_close before uvc_unref_device before uvc_exit. At every moment the
\* releases made so far are a prefix of the acquisitions reversed, and once
\* Visca2Uvc has been left they are all of them.
C1_ReverseOrderRelease ==
    /\ IsPrefix(Released, Reverse(AcquiredInOrder))
    /\ pc \in {"caller", "done"} => Released = Reverse(AcquiredInOrder)

\* C1 witness: an invocation that acquired all three resources, failed in a
\* later step with an exception and has released the three.
C1_Witness ==
    /\ pc = "done"
    /\ exc # "none"
    /\ FnsOf(SelectSeq(calls, IsRelease)) =
           <<"uvc_close", "uvc_unref_device", "uvc_exit">>

\* C2: under every sequence of wrapper operations and in every invocation,
\* each native resource acquired is released at most once at any time, only
\* acquired resources are released, and when the process has ended each has
\* been released exactly once.
C2_ReleasedExactlyOnce ==
    /\ \A p \in Acquired : ReleaseCount(p) <= 1
    /\ \A i \in DOMAIN calls : IsRelease(calls[i]) => calls[i].ptr \in Acquired
    /\ pc = "done" => \A p \in Acquired : ReleaseCount(p) = 1

\* C2 witness: a wrapper pool that ended after every native pointer of the
\* pool was acquired and wrapped.
C2_Witness ==
    /\ pc = "done"
    /\ args = <<>>
    /\ Cardinality(Acquired) = MaxPtr

\* C3: no handle operation (a zoom transfer or the diagnostics dump) is made
\* after any release (of the handle, the device reference or the context),
\* and each is made on the handle pointer uvc_open handed out.
C3_NoUseAfterRelease ==
    \A i \in DOMAIN calls :
        calls[i].fn \in HandleFns =>
            /\ calls[i].ptr = Ptr("devh", 1)
            /\ \E j \in 1..(i - 1) : calls[j].fn = "uvc_open" /\ calls[j].err >= 0
            /\ \A j \in 1..(i - 1) : ~IsRelease(calls[j])

\* C3 witness: an ended invocation that made a zoom transfer and then
\* released handle, device reference and context.
C3_Witness ==
    /\ pc = "done"
    /\ ZoomCalls # {}
    /\ Len(Released) = 3

\* set_zoom_abs with other than 1 argument, set_zoom_rel with other than 3.
ArityMismatch ==
    /\ Len(args) >= 2
    /\ \/ Cmd = Word("set_zoom_abs") /\ ArgCount # 1
       \/ Cmd = Word("set_zoom_rel") /\ ArgCount # 3

\* C4 as stated: on an arity mismatch the invocation ends with InvalidArgument
\* and has made no subsystem call at all.
C4_Original ==
    (ArityMismatch /\ pc = "done") =>
        status = "InvalidArgument" /\ calls = <<>>

\* C4 as amended: on an arity mismatch no zoom transfer is ever made; when the
\* context, the device and the handle were acquired, the invocation ends with
\* InvalidArgument, and the subsystem calls it has made are exactly context
\* init, device find, device open and the diagnostics dump, followed by the
\* three releases.
C4_ArityBeforeTransfers ==
    ArityMismatch =>
        /\ ZoomCalls = {}
        /\ (pc = "done" /\ HandleOpened) =>
              /\ status = "InvalidArgument"
              /\ exc = "none"
              /\ FnsOf(calls) = <<"uvc_init", "uvc_find_device", "uvc_open",
                                  "uvc_print_diag", "uvc_close",
                                  "uvc_unref_device", "uvc_exit">>

\* C4 witness: set_zoom_rel with too few arguments, ended with InvalidArgument.
C4_Witness ==
    /\ pc = "done"
    /\ ArityMismatch
    /\ Cmd = Word("set_zoom_rel")
    /\ status = "InvalidArgument"

\* What a token denotes as a base-10 integer: white space around it dropped,
\* an optional sign, then one digit or more. The value saturates far outside
\* every target range.
RefBody(t) == StripTrailing(StripLeading(t))

RefDigits(t) ==
    LET b == RefBody(t) IN
    IF b # <<>> /\ Head(b) \in {"-", "+"} THEN Tail(b) ELSE b

RefIsInteger(t) ==
    /\ RefDigits(t) # <<>>
    /\ \A i \in DOMAIN RefDigits(t) : RefDigits(t)[i] \in Digits

RECURSIVE RefMagnitude(_, _)
RefMagnitude(s, acc) ==
    IF s = <<>> THEN acc
    ELSE LET next == acc * 10 + DigitVal(Head(s))
         IN  RefMagnitude(Tail(s), IF next > 2^20 THEN 2^20 ELSE next)

RefValue(t) ==
    IF Head(RefBody(t)) = "-" THEN 0 - RefMagnitude(RefDigits(t), 0)
    ELSE RefMagnitude(RefDigits(t), 0)

InRange(T, v) ==
    CASE T = "uint16_t" -> 0 <= v /\ v <= 2^16 - 1
      [] T = "uint8_t"  -> 0 <= v /\ v <= 2^8 - 1
      [] T = "int8_t"   -> 0 - 2^7 <= v /\ v <= 2^7 - 1

RefValid(T, t) == RefIsInteger(t) /\ InRange(T, RefValue(t))

\* C5: SimpleAtoi<T>(t) succeeds if and only if t is a base-10 integer whose
\* value lies in T's range, and then returns exactly that value; a value out
\* of range is an error, never a wrapped value.
C5_ParseContract ==
    \A i \in DOMAIN parsed :
        /\ parsed[i].ok <=> RefValid(parsed[i].T, parsed[i].tok)
        /\ parsed[i].ok => parsed[i].val = RefValue(parsed[i].tok)

\* C6: for set_zoom_rel with three valid tokens (a, b, c), the payload of
\* every relative-zoom setter transfer is {step: a, digital_zoom: b,
\* speed: c}, each field taken from its own argument position.
C6_FieldsFromOwnPositions ==
    ( /\ Cmd = Word("set_zoom_rel")
      /\ ArgCount = 3
      /\ RefValid("int8_t", Arg(2))
      /\ RefValid("uint8_t", Arg(3))
      /\ RefValid("uint8_t", Arg(4)) ) =>
        \A i \in DOMAIN calls :
            calls[i].fn = "uvc_set_zoom_rel" =>
                calls[i].val =
                    <<RefValue(Arg(2)), RefValue(Arg(3)), RefValue(Arg(4))>>

\* An error other than UnknownCommand arose: a native call returned a
\* negative status, a parse failed, or the arity did not match.
ErrorArose ==
    \/ \E i \in DOMAIN calls : calls[i].err < 0
    \/ \E i \in DOMAIN parsed : ~parsed[i].ok
    \/ ArityMismatch /\ HandleOpened

\* C7: every error other than UnknownCommand leaves Visca2Uvc as a status
\* that is not OK: no exception is raised and the result is never OK.
C7_ErrorsValueReturned ==
    (pc = "done" /\ ErrorArose) =>
        /\ exc = "none"
        /\ status \notin {"unset", "OK"}

\* C8: once a numeric token has failed to parse, the dispatch is aborted
\* (Visca2Uvc is being left or has been left, without the status OK) and the
\* invocation has made and will make no zoom transfer, setter or getter.
C8_ParseFailureNoTransfer ==
    (\E i \in DOMAIN parsed : ~parsed[i].ok) =>
        /\ ZoomCalls = {}
        /\ status # "OK"
        /\ pc \in {"exit", "caller", "done"}

\* C8 witness: set_zoom_rel with three arguments, ended after a parse failed.
C8_Witness ==
    /\ pc = "done"
    /\ Cmd = Word("set_zoom_rel")
    /\ ArgCount = 3
    /\ \E i \in DOMAIN parsed : ~parsed[i].ok

\* C9: with no argument beyond the program name the invocation makes no
\* subsystem call and constructs no wrapper, raises nothing, and ends having
\* written the usage banner and nothing else, with status OK and exit code 0.
C9_UsageOnly ==
    Len(args) <= 1 =>
        /\ calls = <<>>
        /\ alive = {}
        /\ exc = "none"
        /\ errs = <<>>
        /\ pc = "done" =>
              /\ out = <<Text("Usage: visca2uvc [cmd] ...")>>
              /\ status = "OK"
              /\ exitcode = 0

\* C9 witness: the invocation without arguments has ended.
C9_Witness ==
    /\ pc = "done"
    /\ Len(args) = 1
    /\ out # <<>>

\* C10: for a command name that is not known, no zoom transfer is ever made;
\* when the dispatch was reached (the handle was opened) the invocation ends
\* with exactly one line on the error stream, the unknown-command report,
\* status OK, no exception and exit code 0.
C10_UnknownCommand ==
    (Len(args) >= 2 /\ Cmd \notin KnownCommands) =>
        /\ ZoomCalls = {}
        /\ (pc = "done" /\ HandleOpened) =>
              /\ errs = <<"Unknown command">>
              /\ status = "OK"
              /\ exc = "none"
              /\ exitcode = 0

\* C10 witness: an unknown command on an opened device has ended.
C10_Witness ==
    /\ pc = "done"
    /\ HandleOpened
    /\ Cmd = Word("foo")
    /\ errs # <<>>

\* C11: the acquisition chain stops at its first failure: after a failed
\* uvc_init, uvc_find_device or uvc_open the only native calls still made are
\* releases (no later acquisition, no handle operation, no second attempt),
\* each acquirer is called at most once, and once Visca2Uvc has been left
\* everything acquired before the failure has been released.
C11_ChainAbortsAtFirstFailure ==
    /\ \A i \in DOMAIN calls :
          (calls[i].fn \in AcquireFns /\ calls[i].err < 0) =>
              \A j \in (i + 1)..Len(calls) : IsRelease(calls[j])
    /\ \A f \in AcquireFns :
          Cardinality({i \in DOMAIN calls : calls[i].fn = f}) <= 1
    /\ pc \in {"caller", "done"} =>
          \A p \in Acquired : ReleaseCount(p) = 1

\* C11 witness: uvc_open failed after context and device were acquired, and
\* the invocation ended with both released.
C11_Witness ==
    /\ pc = "done"
    /\ \E i \in DOMAIN calls : calls[i].fn = "uvc_open" /\ calls[i].err < 0
    /\ Len(Released) = 2

\* The zoom transfers made so far, in order, and what was written to
\* std::cout: the labels of the getter lines and the values after them.
IsZoomCall(c) == c.fn \in ZoomFns
IsGetCall(c) == c.fn \in {"uvc_get_zoom_abs", "uvc_get_zoom_rel"}
IsSetCall(c) == c.fn \in {"uvc_set_zoom_abs", "uvc_set_zoom_rel"}
IsSucceeded(c) == c.err >= 0
IsLabel(f) == f.text \in {"min: ", "max: ", "cur: "}
IsValue(f) == f.text = "value"

ZoomSeq == SelectSeq(calls, IsZoomCall)
LabelsOut == [i \in 1..Len(SelectSeq(out, IsLabel)) |->
                 SelectSeq(out, IsLabel)[i].text]
ValuesOut == [i \in 1..Len(SelectSeq(out, IsValue)) |->
                 SelectSeq(out, IsValue)[i].val]
ValsOf(s) == [i \in 1..Len(s) |-> s[i].val]

GetterOf(cmd) ==
    IF cmd \in {Word("get_zoom_abs"), Word("set_zoom_abs")}
    THEN "uvc_get_zoom_abs" ELSE "uvc_get_zoom_rel"

SetterOf(cmd) ==
    IF cmd \in {Word("get_zoom_abs"), Word("set_zoom_abs")}
    THEN "uvc_set_zoom_abs" ELSE "uvc_set_zoom_rel"

\* C12: for get_zoom_abs and get_zoom_rel the zoom transfers are get
\* transfers of the command's control with request codes min, max, cur in
\* that order, three of them when none fails; a transfer that fails is the
\* last one; no set transfer is made; and in every state the labels written
\* are those of the transfers made and the values written are the results of
\* the transfers that succeeded, so each result is written before the next
\* transfer is made.
C12_GetOrder ==
    Cmd \in {Word("get_zoom_abs"), Word("get_zoom_rel")} =>
        /\ Len(ZoomSeq) <= 3
        /\ \A k \in DOMAIN ZoomSeq :
              /\ ZoomSeq[k].fn = GetterOf(Cmd)
              /\ ZoomSeq[k].req = <<"min", "max", "cur">>[k]
              /\ k < Len(ZoomSeq) => ZoomSeq[k].err >= 0
        /\ LabelsOut = SubSeq(<<"min: ", "max: ", "cur: ">>, 1, Len(ZoomSeq))
        /\ ValuesOut = ValsOf(SelectSeq(ZoomSeq, IsSucceeded))
        /\ (pc = "done" /\ HandleOpened /\ exc = "none") => Len(ZoomSeq) = 3

\* C12 witness: get_zoom_rel ended after its three transfers succeeded.
C12_Witness ==
    /\ pc = "done"
    /\ Cmd = Word("get_zoom_rel")
    /\ Len(ZoomSeq) = 3
    /\ exc = "none"

\* A set command with the right number of arguments, each a base-10 integer
\* in the range of its field.
ValidSetArguments ==
    \/ /\ Cmd = Word("set_zoom_abs")
       /\ ArgCount = 1
       /\ RefValid("uint16_t", Arg(2))
    \/ /\ Cmd = Word("set_zoom_rel")
       /\ ArgCount = 3
       /\ RefValid("int8_t", Arg(2))
       /\ RefValid("uint8_t", Arg(3))
       /\ RefValid("uint8_t", Arg(4))

\* C13: a set command with valid arguments on an opened device makes exactly
\* two zoom transfers, the set transfer and then the GetCurrent transfer of
\* the same control, and the value written after "cur: " is the result of
\* that GetCurrent transfer.
C13_SetThenRequery ==
    (pc = "done" /\ HandleOpened /\ ValidSetArguments) =>
        /\ Len(ZoomSeq) = 2
        /\ ZoomSeq[1].fn = SetterOf(Cmd)
        /\ ZoomSeq[2].fn = GetterOf(Cmd)
        /\ ZoomSeq[2].req = "cur"
        /\ ZoomSeq[2].err >= 0 => ValuesOut = <<ZoomSeq[2].val>>

\* dev.Open() has returned, with a handle or with an error.
OpenReturned == \E i \in DOMAIN calls : calls[i].fn = "uvc_open"

\* Visca2Uvc is still running: its locals have not been destroyed.
InScope == pc \notin {"caller", "done"}

\* C14 as stated: once Open has returned, the Device object no longer owns
\* the native device reference.
C14_Original ==
    OpenReturned => value_["dev"] = Null

\* C14: Open leaves the Device reference with the Device object. After Open
\* has returned, with a handle or with an error, the object still holds the
\* reference and nothing has released it for as long as Visca2Uvc runs; once
\* Visca2Uvc is left the reference has been released exactly once.
C14_OpenKeepsDevice ==
    OpenReturned =>
        /\ InScope =>
              /\ "dev" \in alive
              /\ value_["dev"] = Ptr("dev", 1)
              /\ ReleaseCount(Ptr("dev", 1)) = 0
        /\ ~InScope => ReleaseCount(Ptr("dev", 1)) = 1

\* C14 witness: Open failed and, before Visca2Uvc is left, the Device object
\* still owns the reference it was opened from.
C14_Witness ==
    /\ pc = "exit"
    /\ \E i \in DOMAIN calls : calls[i].fn = "uvc_open" /\ calls[i].err < 0
    /\ value_["dev"] = Ptr("dev", 1)
    /\ ReleaseCount(Ptr("dev", 1)) = 0

\* The pointers the destructor of wrapper object o would release if it ran
\* now: the native calls ~UvcWrapper adds to the log.
DtorReleases(o) ==
    PtrsOf(SubSeq(WrapperDtor(Heap, o).calls, Len(calls) + 1,
                  Len(WrapperDtor(Heap, o).calls)))

\* C15 as stated: after a move out of a wrapper into another wrapper object,
\* by move construction or by move assignment, the moved-from wrapper holds
\* null and its destruction releases nothing.
C15_Original ==
    (moved.op # "none" /\ moved.other # moved.this) =>
        /\ value_[moved.other] = Null
        /\ DtorReleases(moved.other) = <<>>

\* C15: after a move construction the moved-from wrapper holds null and its
\* destruction releases nothing. After a move assignment the two pointers
\* have changed places: the moved-from wrapper holds the pointer the target
\* held before, the target holds the moved one, and the destruction of the
\* moved-from wrapper releases the target's former pointer if that was not
\* null.
C15_MovedFromState ==
    /\ moved.op = "construct" =>
          /\ value_[moved.other] = Null
          /\ DtorReleases(moved.other) = <<>>
    /\ moved.op = "assign" =>
          /\ value_[moved.other] = moved.was
          /\ DtorReleases(moved.other) =
                IF moved.was = Null THEN <<>> ELSE <<moved.was>>
          /\ ReleaseCount(moved.was) = 0

\* C15 witness: a wrapper was move-assigned into another wrapper that owned
\* a resource, and the moved-from wrapper now owns that resource.
C15_Witness ==
    /\ moved.op = "assign"
    /\ moved.other # moved.this
    /\ moved.was # Null
    /\ value_[moved.this] # Null
    /\ value_[moved.other] = moved.was

\* The fragment a set command writes after "set: ": the status its setter
\* returned, OK or the error naming the native call.
IsStatusOut(f) == f.text \in {"OK", "uvc_set_zoom_abs", "uvc_set_zoom_rel"}

GetSeq == SelectSeq(calls, IsGetCall)
SetSeq == SelectSeq(calls, IsSetCall)
StatusOut == SelectSeq(out, IsStatusOut)

\* C16: every invocation of GetZoomAbs or GetZoomRel (one per label written)
\* and every invocation of SetZoomAbs or SetZoomRel (one per status written)
\* makes exactly one native transfer. A getter returns its value, which is
\* then written, exactly when the transfer's status is not negative; on a
\* negative status the error it returns, thrown by .value(), names the native
\* call and no further transfer is made. A setter returns OK exactly when
\* the transfer's status is not negative and otherwise an error naming the
\* native call.
C16_OneTransferPerOperation ==
    /\ Len(GetSeq) = Len(LabelsOut)
    /\ Len(SelectSeq(GetSeq, IsSucceeded)) = Len(ValuesOut)
    /\ \A k \in DOMAIN GetSeq :
          GetSeq[k].err < 0 =>
              /\ k = Len(GetSeq)
              /\ ZoomSeq[Len(ZoomSeq)] = GetSeq[k]
              /\ exc = GetSeq[k].fn
    /\ Len(SetSeq) = Len(StatusOut)
    /\ \A k \in DOMAIN SetSeq :
          /\ k \in DOMAIN StatusOut
          /\ StatusOut[k].text =
                IF SetSeq[k].err >= 0 THEN "OK" ELSE SetSeq[k].fn

\* C16 witness: an ended invocation in which the setter's transfer failed and
\* then the getter's transfer failed.
C16_Witness ==
    /\ pc = "done"
    /\ \E k \in DOMAIN SetSeq : SetSeq[k].err < 0
    /\ \E k \in DOMAIN GetSeq : GetSeq[k].err < 0

\* set_zoom_abs ran with one argument, and both its set transfer and its
\* GetCurrent transfer succeeded.
SetAbsRoundTrip ==
    /\ Cmd = Word("set_zoom_abs")
    /\ Len(ZoomSeq) = 2
    /\ ZoomSeq[1].err >= 0
    /\ ZoomSeq[2].err >= 0

\* C17: when set_zoom_abs has set a value and re-queried the control with
\* success, on a camera that keeps the value last set, the GetCurrent
\* transfer returns the value the set transfer sent, that value is the one
\* parsed from the argument, it is the value written after "cur: ", and for
\* a token that is a base-10 integer in the 16-bit range it is the token's
\* value.
C17_SetAbsRoundTrip ==
    SetAbsRoundTrip =>
        /\ ZoomSeq[1].val = <<parsed[1].val>>
        /\ ZoomSeq[2].req = "cur"
        /\ ZoomSeq[2].val = ZoomSeq[1].val
        /\ ValuesOut = <<ZoomSeq[1].val>>
        /\ RefValid("uint16_t", Arg(2)) =>
              ValuesOut = << <<RefValue(Arg(2))>> >>

\* C17 witness: set_zoom_abs 10 ended on a camera whose zoom was 500 before,
\* with 10 written as the current value.
C17_Witness ==
    /\ pc = "done"
    /\ SetAbsRoundTrip
    /\ Arg(2) = <<"1", "0">>
    /\ ValuesOut = << <<10>> >>
    /\ \E c \in Cameras : c.abs.cur = 500 /\ camera = [c EXCEPT !.abs.cur = 10]

\* The positions in the call log of the diagnostics dumps.
DiagCalls == {i \in DOMAIN calls : calls[i].fn = "uvc_print_diag"}

\* C18: in an invocation with a command argument whose device was opened,
\* the diagnostics dump is the call that follows uvc_open: none has been
\* made while the dispatcher is about to make it, exactly one from then on,
\* every zoom transfer comes after it, and it is made whatever the command
\* and the number of its arguments are.
C18_DiagFirst ==
    (Len(args) >= 2 /\ HandleOpened) =>
        /\ pc = "diag" => DiagCalls = {} /\ ZoomCalls = {}
        /\ pc # "diag" =>
              /\ Cardinality(DiagCalls) = 1
              /\ \A d \in DiagCalls :
                    /\ calls[d - 1].fn = "uvc_open"
                    /\ calls[d].ptr = Ptr("devh", 1)
                    /\ \A i \in DOMAIN calls : IsZoomCall(calls[i]) => d < i

\* C18 witness: set_zoom_abs without its argument ended with InvalidArgument
\* after the diagnostics dump was made.
C18_Witness ==
    /\ pc = "done"
    /\ Cmd = Word("set_zoom_abs")
    /\ ArityMismatch
    /\ Cardinality(DiagCalls) = 1

\* A result unwrapped with .value() was an error: a factory or a getter
\* whose native call failed, or a SimpleAtoi that could not parse.
UnwrappedError ==
    \/ \E i \in DOMAIN calls :
          /\ calls[i].fn \in AcquireFns \cup {"uvc_get_zoom_abs",
                                              "uvc_get_zoom_rel"}
          /\ calls[i].err < 0
    \/ \E i \in DOMAIN parsed : ~parsed[i].ok

\* C19: the process has no exit code while it runs, and it ends with exit
\* code 1 exactly when a result unwrapped with .value() was an error, which
\* is exactly when an exception reached main's handler; otherwise, whatever
\* status Visca2Uvc returned and whether or not a setter's transfer failed,
\* it ends with exit code 0.
C19_ExitCode ==
    /\ pc # "done" => exitcode = -1
    /\ pc = "done" =>
          /\ exitcode \in {0, 1}
          /\ exitcode = 1 <=> UnwrappedError
          /\ UnwrappedError <=> exc # "none"
          /\ exc # "none" <=> status = "unset"

\* C19 witness: a set command whose setter transfer failed and whose re-query
\* succeeded ended with exit code 0.
C19_Witness ==
    /\ pc = "done"
    /\ \E k \in DOMAIN SetSeq : SetSeq[k].err < 0
    /\ ~UnwrappedError
    /\ status = "OK"
    /\ exitcode = 0

====
